---- MODULE Spec2Model ----
(***************************************************************************)
(* Model of nekoton-abi/src/token_unpacker.rs: the type-directed unpack    *)
(* rules over ton_abi::TokenValue and the ContractOutputUnpacker cursor.   *)
(*                                                                         *)
(* Arbitrary-precision integers (BigUint, and the magnitude of a BigInt)   *)
(* are sequences of base-256 digits, most significant first, without       *)
(* leading zeros; zero is the empty sequence.  Option is a sequence of     *)
(* length 0 or 1.  A Result is Ok(x) or InvalidAbi.                        *)
(***************************************************************************)
EXTENDS Integers, Sequences, FiniteSets, TLC

VARIABLES orig, rest, hist, first, val, target, res

vars == <<orig, rest, hist, first, val, target, res>>

cursorVars == <<orig, rest, hist, first>>

dispatchVars == <<val, target, res>>

(* ------------------------------ bounds --------------------------------- *)

MaxBytes == 33

MaxItems == 3

MaxPairs == 2

MaxTokens == 2

MaxCalls == 3

(* ------------------------------ results -------------------------------- *)

None == <<>>

Some(x) == <<x>>

Ok(x) == [ok |-> TRUE, v |-> x]

InvalidAbi == [ok |-> FALSE, err |-> "InvalidAbi"]

Pending == [pending |-> TRUE]

IsOk(r) == r.ok

(* ------------------------- big integers -------------------------------- *)

Min(a, b) == IF a <= b THEN a ELSE b

Mag(len, top, fill) == [i \in 1..len |-> IF i = 1 THEN top ELSE fill]

Magnitudes ==
    {<<>>, <<1, 44>>}
        \cup {Mag(l, t, f) : l \in 1..MaxBytes, t \in {1, 127, 128, 255}, f \in {0, 255}}

BigUints == {[mag |-> m] : m \in Magnitudes}

BigInts ==
    {[neg |-> FALSE, mag |-> m] : m \in Magnitudes}
        \cup {[neg |-> TRUE, mag |-> m] : m \in Magnitudes \ {<<>>}}

(* BigUint::to_bytes_be: the big-endian bytes, a single zero byte for 0.   *)
to_bytes_be(number) == IF number.mag = <<>> THEN <<0>> ELSE number.mag

BitLen(b) == CHOOSE k \in 1..8 : 2^(k-1) <= b /\ b < 2^k

(* BigUint::bits: number of significant bits.                              *)
bits(mag) == IF mag = <<>> THEN 0 ELSE 8 * (Len(mag) - 1) + BitLen(mag[1])

IsPowerOfTwo(mag) ==
    /\ mag # <<>>
    /\ mag[1] \in {1, 2, 4, 8, 16, 32, 64, 128}
    /\ \A i \in 2..Len(mag) : mag[i] = 0

(* BigUint -> unsigned machine word of w bits (to_u64, to_u128).           *)
to_unsigned(number, w) == IF bits(number.mag) <= w THEN Some(number) ELSE None

(* BigInt -> signed machine word of w bits (to_i64, to_i128): a            *)
(* non-negative value must be at most MAX, a negative one must have a      *)
(* magnitude of at most MAX + 1.                                           *)
to_signed(number, w) ==
    IF ~number.neg
    THEN IF bits(number.mag) <= w - 1 THEN Some(number) ELSE None
    ELSE IF bits(number.mag) <= w - 1
            \/ (bits(number.mag) = w /\ IsPowerOfTwo(number.mag))
         THEN Some(number)
         ELSE None

(* Variant: the narrowing wraps (keeps the low bytes) instead of failing.  *)
narrow_unsigned_wrap(word, w) ==
    IF word = None THEN None
    ELSE IF bits(word[1].mag) <= w THEN word
    ELSE LET m == word[1].mag
         IN Some([mag |-> SubSeq(m, Len(m) - (w \div 8) + 1, Len(m))])

(* u64 -> u8/u16/u32 (the ToPrimitive default methods go through the       *)
(* 64-bit conversion and then range-check the machine word).               *)
narrow_unsigned(word, w) ==
    IF word = None THEN None
    ELSE IF bits(word[1].mag) <= w THEN word ELSE None

(* i64 -> i8/i16/i32.                                                      *)
narrow_signed(word, w) ==
    IF word = None THEN None ELSE to_signed(word[1], w)

to_i64(number) == to_signed(number, 64)

to_u64(number) == to_unsigned(number, 64)

to_i8(number) == narrow_signed(to_i64(number), 8)

to_u8(number) == narrow_unsigned(to_u64(number), 8)

to_i16(number) == narrow_signed(to_i64(number), 16)

to_u16(number) == narrow_unsigned(to_u64(number), 16)

to_i32(number) == narrow_signed(to_i64(number), 32)

to_u32(number) == narrow_unsigned(to_u64(number), 32)

to_i128(number) == to_signed(number, 128)

to_u128(number) == to_unsigned(number, 128)

(* Option::ok_or(UnpackerError::InvalidAbi)                                *)
ok_or(opt) == IF opt = None THEN InvalidAbi ELSE Ok(opt[1])

(* ------------------------- ton_abi::TokenValue ------------------------- *)

UintValue(number, size) == [tag |-> "Uint", number |-> number, size |-> size]

IntValue(number, size) == [tag |-> "Int", number |-> number, size |-> size]

Bool(b) == [tag |-> "Bool", b |-> b]

Cell(c) == [tag |-> "Cell", cell |-> c]

Address(addr) == [tag |-> "Address", addr |-> addr]

String(s) == [tag |-> "String", s |-> s]

Bytes(bs) == [tag |-> "Bytes", bytes |-> bs]

Grams(g) == [tag |-> "Token", grams |-> g]

Array(ptype, tokens) == [tag |-> "Array", ptype |-> ptype, tokens |-> tokens]

FixedArray(ptype, tokens) == [tag |-> "FixedArray", ptype |-> ptype, tokens |-> tokens]

Map(ktype, vtype, values) ==
    [tag |-> "Map", ktype |-> ktype, vtype |-> vtype, values |-> values]

Optional(ptype, item) == [tag |-> "Optional", ptype |-> ptype, item |-> item]

Ref(inner) == [tag |-> "Ref", inner |-> inner]

(* ton_block::MsgAddress and the two internal address payloads.            *)
AddrStd(addr) == [kind |-> "AddrStd", std |-> addr]

AddrVar(addr) == [kind |-> "AddrVar", var |-> addr]

AddrNone == [kind |-> "AddrNone"]

AddrExt(addr) == [kind |-> "AddrExt", ext |-> addr]

(* ton_block::MsgAddressInt                                                *)
IntAddrStd(addr) == [intkind |-> "AddrStd", std |-> addr]

IntAddrVar(addr) == [intkind |-> "AddrVar", var |-> addr]

(* ------------------------- the unpack rules ---------------------------- *)

(* A target type T is a record: [k |-> name] for a plain type,             *)
(* [k |-> "Vec" | "Option" | "MaybeRef" | "Box" | "Arc", e |-> T] and      *)
(* [k |-> "BTreeMap" | "HashMap", kt |-> K, vt |-> V] for the generic ones.*)
Ty(k) == [k |-> k]

Gen(k, e) == [k |-> k, e |-> e]

MapTy(k, kt, vt) == [k |-> k, kt |-> kt, vt |-> vt]

RECURSIVE unpack(_, _)

(* Variant: an unsigned value is accepted as a non-negative BigInt.       *)
unpack_BigInt_coerce(value) ==
    IF value.tag = "Int" THEN Ok(value.number)
    ELSE IF value.tag = "Uint" THEN Ok([neg |-> FALSE, mag |-> value.number.mag])
    ELSE InvalidAbi

unpack_BigInt(value) ==
    IF value.tag = "Int" THEN Ok(value.number) ELSE InvalidAbi

unpack_BigUint(value) ==
    IF value.tag = "Uint" THEN Ok(value.number) ELSE InvalidAbi

unpack_i8(value) ==
    LET r == unpack_BigInt(value) IN IF IsOk(r) THEN ok_or(to_i8(r.v)) ELSE r

unpack_u8(value) ==
    LET r == unpack_BigUint(value) IN IF IsOk(r) THEN ok_or(to_u8(r.v)) ELSE r

unpack_i16(value) ==
    LET r == unpack_BigInt(value) IN IF IsOk(r) THEN ok_or(to_i16(r.v)) ELSE r

unpack_u16(value) ==
    LET r == unpack_BigUint(value) IN IF IsOk(r) THEN ok_or(to_u16(r.v)) ELSE r

unpack_i32(value) ==
    LET r == unpack_BigInt(value) IN IF IsOk(r) THEN ok_or(to_i32(r.v)) ELSE r

unpack_u32(value) ==
    LET r == unpack_BigUint(value) IN IF IsOk(r) THEN ok_or(to_u32(r.v)) ELSE r

unpack_i64(value) ==
    LET r == unpack_BigInt(value) IN IF IsOk(r) THEN ok_or(to_i64(r.v)) ELSE r

unpack_u64(value) ==
    LET r == unpack_BigUint(value) IN IF IsOk(r) THEN ok_or(to_u64(r.v)) ELSE r

unpack_i128(value) ==
    LET r == unpack_BigInt(value) IN IF IsOk(r) THEN ok_or(to_i128(r.v)) ELSE r

unpack_u128(value) ==
    LET r == unpack_BigUint(value) IN IF IsOk(r) THEN ok_or(to_u128(r.v)) ELSE r

UInt256Len == 32

UInt256Size == 256

(* ton_types::UInt256 from its 32 bytes.                                   *)
UInt256(bytes) == [bytes32 |-> bytes]

unpack_UInt256(value) ==
    IF value.tag = "Uint" /\ value.size = UInt256Size
    THEN LET data == to_bytes_be(value.number)
             len == Min(Len(data), UInt256Len)
             offset == UInt256Len - len
             result == [j \in 1..UInt256Len |->
                           IF j > offset THEN data[j - offset] ELSE 0]
         IN Ok(UInt256(result))
    ELSE InvalidAbi

unpack_bool(value) ==
    IF value.tag = "Bool" THEN Ok([b |-> value.b]) ELSE InvalidAbi

unpack_Cell(value) ==
    IF value.tag = "Cell" THEN Ok([cell |-> value.cell]) ELSE InvalidAbi

(* Variant: the AddrVar arm is missing.                                   *)
unpack_MsgAddressInt_std_only(value) ==
    IF value.tag = "Address" /\ value.addr.kind = "AddrStd"
    THEN Ok(IntAddrStd(value.addr.std))
    ELSE InvalidAbi

unpack_MsgAddressInt(value) ==
    IF value.tag = "Address" /\ value.addr.kind = "AddrStd"
    THEN Ok(IntAddrStd(value.addr.std))
    ELSE IF value.tag = "Address" /\ value.addr.kind = "AddrVar"
    THEN Ok(IntAddrVar(value.addr.var))
    ELSE InvalidAbi

unpack_MsgAddress(value) ==
    IF value.tag = "Address" THEN Ok(value.addr) ELSE InvalidAbi

unpack_MsgAddrStd(value) ==
    IF value.tag = "Address" /\ value.addr.kind = "AddrStd"
    THEN Ok(value.addr.std)
    ELSE InvalidAbi

unpack_String(value) ==
    IF value.tag = "String" THEN Ok([s |-> value.s]) ELSE InvalidAbi

unpack_Bytes(value) ==
    IF value.tag = "Bytes" THEN Ok([bytes |-> value.bytes]) ELSE InvalidAbi

unpack_Grams(value) ==
    IF value.tag = "Token" THEN Ok([grams |-> value.grams]) ELSE InvalidAbi

unpack_TokenValue(value) == Ok(value)

(* for token in tokens { vec.push(token.unpack()?) }                      *)
RECURSIVE unpack_Vec_loop(_, _, _)

(* Variant: a failing element is skipped instead of ending the decode.    *)
unpack_Vec_loop_skip(T, tokens, vec) ==
    IF tokens = <<>> THEN Ok([vec |-> vec])
    ELSE LET r == unpack(T, Head(tokens))
         IN IF IsOk(r)
            THEN unpack_Vec_loop(T, Tail(tokens), Append(vec, r.v))
            ELSE unpack_Vec_loop(T, Tail(tokens), vec)

unpack_Vec_loop(T, tokens, vec) ==
    IF tokens = <<>> THEN Ok([vec |-> vec])
    ELSE LET r == unpack(T, Head(tokens))
         IN IF IsOk(r)
            THEN unpack_Vec_loop(T, Tail(tokens), Append(vec, r.v))
            ELSE r

unpack_Vec(T, value) ==
    IF value.tag \in {"Array", "FixedArray"}
    THEN unpack_Vec_loop(T, value.tokens, <<>>)
    ELSE InvalidAbi

(* A native map is its set of <<key, value>> entries, one per key.         *)
(* Variant: an existing key keeps its value (first write wins).           *)
BTreeMap_insert_keep(map, key, value) ==
    IF \E p \in map : p[1] = key THEN map ELSE map \cup {<<key, value>>}

BTreeMap_insert(map, key, value) ==
    {p \in map : p[1] # key} \cup {<<key, value>>}

HashMap_insert(map, key, value) ==
    {p \in map : p[1] # key} \cup {<<key, value>>}

RECURSIVE unpack_BTreeMap_loop(_, _, _, _)

unpack_BTreeMap_loop(K, V, values, map) ==
    IF values = <<>> THEN Ok([btree |-> map])
    ELSE LET key == unpack(K, Head(values)[1])
         IN IF ~IsOk(key) THEN key
            ELSE LET value == unpack(V, Head(values)[2])
                 IN IF ~IsOk(value) THEN value
                    ELSE unpack_BTreeMap_loop(K, V, Tail(values),
                                              BTreeMap_insert(map, key.v, value.v))

unpack_BTreeMap(K, V, value) ==
    IF value.tag = "Map"
    THEN unpack_BTreeMap_loop(K, V, value.values, {})
    ELSE InvalidAbi

RECURSIVE unpack_HashMap_loop(_, _, _, _)

unpack_HashMap_loop(K, V, values, map) ==
    IF values = <<>> THEN Ok([hash |-> map])
    ELSE LET key == unpack(K, Head(values)[1])
         IN IF ~IsOk(key) THEN key
            ELSE LET value == unpack(V, Head(values)[2])
                 IN IF ~IsOk(value) THEN value
                    ELSE unpack_HashMap_loop(K, V, Tail(values),
                                             HashMap_insert(map, key.v, value.v))

unpack_HashMap(K, V, value) ==
    IF value.tag = "Map"
    THEN unpack_HashMap_loop(K, V, value.values, {})
    ELSE InvalidAbi

(* item.map(|item| item.unpack()).transpose()                              *)
unpack_Option(T, value) ==
    IF value.tag = "Optional"
    THEN IF value.item = None THEN Ok([some |-> None])
         ELSE LET r == unpack(T, value.item[1])
              IN IF IsOk(r) THEN Ok([some |-> Some(r.v)]) ELSE r
    ELSE InvalidAbi

MaybeRef(opt) == [maybe_ref |-> opt]

(* Variant: a present inner value that is not a Ref is decoded directly.   *)
unpack_MaybeRef_lenient(T, value) ==
    IF value.tag = "Optional" /\ value.item # None
    THEN LET item == value.item[1]
             r == unpack(T, IF item.tag = "Ref" THEN item.inner ELSE item)
         IN IF IsOk(r) THEN Ok(MaybeRef(Some(r.v))) ELSE r
    ELSE IF value.tag = "Optional" THEN Ok(MaybeRef(None))
    ELSE InvalidAbi

unpack_MaybeRef(T, value) ==
    IF value.tag = "Optional" /\ value.item # None
    THEN LET item == value.item[1]
         IN IF item.tag = "Ref"
            THEN LET r == unpack(T, item.inner)
                 IN IF IsOk(r) THEN Ok(MaybeRef(Some(r.v))) ELSE r
            ELSE InvalidAbi
    ELSE IF value.tag = "Optional" THEN Ok(MaybeRef(None))
    ELSE InvalidAbi

(* self.unpack().map(Box::new)                                             *)
unpack_Box(T, value) ==
    LET r == unpack(T, value) IN IF IsOk(r) THEN Ok([boxed |-> r.v]) ELSE r

(* self.unpack().map(Arc::new)                                             *)
unpack_Arc(T, value) ==
    LET r == unpack(T, value) IN IF IsOk(r) THEN Ok([arc |-> r.v]) ELSE r

(* The rule the compiler selects for TokenValue: UnpackAbi<T>.             *)
unpack(T, value) ==
    CASE T.k = "i8" -> unpack_i8(value)
      [] T.k = "u8" -> unpack_u8(value)
      [] T.k = "i16" -> unpack_i16(value)
      [] T.k = "u16" -> unpack_u16(value)
      [] T.k = "i32" -> unpack_i32(value)
      [] T.k = "u32" -> unpack_u32(value)
      [] T.k = "i64" -> unpack_i64(value)
      [] T.k = "u64" -> unpack_u64(value)
      [] T.k = "i128" -> unpack_i128(value)
      [] T.k = "u128" -> unpack_u128(value)
      [] T.k = "UInt256" -> unpack_UInt256(value)
      [] T.k = "bool" -> unpack_bool(value)
      [] T.k = "Cell" -> unpack_Cell(value)
      [] T.k = "MsgAddressInt" -> unpack_MsgAddressInt(value)
      [] T.k = "MsgAddress" -> unpack_MsgAddress(value)
      [] T.k = "MsgAddrStd" -> unpack_MsgAddrStd(value)
      [] T.k = "String" -> unpack_String(value)
      [] T.k = "BigInt" -> unpack_BigInt(value)
      [] T.k = "BigUint" -> unpack_BigUint(value)
      [] T.k = "Bytes" -> unpack_Bytes(value)
      [] T.k = "Grams" -> unpack_Grams(value)
      [] T.k = "TokenValue" -> unpack_TokenValue(value)
      [] T.k = "Vec" -> unpack_Vec(T.e, value)
      [] T.k = "BTreeMap" -> unpack_BTreeMap(T.kt, T.vt, value)
      [] T.k = "HashMap" -> unpack_HashMap(T.kt, T.vt, value)
      [] T.k = "Option" -> unpack_Option(T.e, value)
      [] T.k = "MaybeRef" -> unpack_MaybeRef(T.e, value)
      [] T.k = "Box" -> unpack_Box(T.e, value)
      [] T.k = "Arc" -> unpack_Arc(T.e, value)

(* impl UnpackAbi<T> for Token                                             *)
unpack_Token(T, token) == unpack(T, token.value)

(* impl UnpackAbi<T> for Option<TokenValue>                                *)
unpack_Option_TokenValue(T, opt) ==
    IF opt = None THEN InvalidAbi ELSE unpack(T, opt[1])

(* impl UnpackAbi<T> for Option<Token>                                     *)
unpack_Option_Token(T, opt) ==
    IF opt = None THEN InvalidAbi ELSE unpack(T, opt[1].value)

(* ---------------------- ContractOutputUnpacker ------------------------- *)

(* Variant: the iterator advances past two items.                         *)
IntoIter_next_skip(iter) ==
    IF iter = <<>>
    THEN [item |-> None, iter |-> <<>>]
    ELSE [item |-> Some(Head(iter)),
          iter |-> IF Len(iter) > 1 THEN Tail(Tail(iter)) ELSE <<>>]

(* std::vec::IntoIter::next: the first remaining item and the iterator     *)
(* advanced past it; None, and the iterator unchanged, once it is empty.   *)
IntoIter_next(iter) ==
    IF iter = <<>>
    THEN [item |-> None, iter |-> <<>>]
    ELSE [item |-> Some(Head(iter)), iter |-> Tail(iter)]

into_unpacker(tokens) == tokens

(* Variant: the cursor advances only when the decode succeeds.            *)
unpack_next_peek(T, unpacker) ==
    LET n == IntoIter_next(unpacker)
        r == unpack_Option_Token(T, n.item)
    IN [result |-> r, unpacker |-> IF IsOk(r) THEN n.iter ELSE unpacker]

unpack_next(T, unpacker) ==
    LET n == IntoIter_next(unpacker)
    IN [result |-> unpack_Option_Token(T, n.item), unpacker |-> n.iter]

(* Variant: the last Token is decoded instead of the first.               *)
unpack_first_last(T, tokens) ==
    IF tokens = <<>> THEN InvalidAbi ELSE unpack(T, tokens[Len(tokens)].value)

unpack_first(T, tokens) == unpack_next(T, into_unpacker(tokens)).result

(* ----------------------------- inputs ---------------------------------- *)

Num(mag) == [mag |-> mag]

SNum(neg, mag) == [neg |-> neg, mag |-> mag]

U32(n) == UintValue(Num(<<n>>), 32)

RECURSIVE SeqsUpTo(_, _)

(* All sequences over S of length at most n.                               *)
SeqsUpTo(S, n) ==
    IF n = 0 THEN {<<>>}
    ELSE LET shorter == SeqsUpTo(S, n - 1)
         IN shorter \cup {Append(q, x) : q \in shorter, x \in S}

CursorTokens ==
    {[name |-> "", value |-> U32(1)],
     [name |-> "value0", value |-> UintValue(Num(<<1, 44>>), 16)],
     [name |-> "flag", value |-> Bool(TRUE)],
     [name |-> "", value |-> String("a")]}

CursorTargets == {Ty("u8"), Ty("u32"), Ty("bool"), Ty("TokenValue")}

(* ------------------------ the cursor's behaviour ----------------------- *)

IdleDispatch == val = Bool(FALSE) /\ target = Ty("bool") /\ res = Pending

Init ==
    /\ orig \in SeqsUpTo(CursorTokens, MaxTokens)
    /\ rest = into_unpacker(orig)
    /\ hist = <<>>
    /\ first = Pending
    /\ IdleDispatch

UnpackNext ==
    /\ Len(hist) < MaxCalls
    /\ \E T \in CursorTargets :
          LET r == unpack_next(T, rest)
          IN /\ rest' = r.unpacker
             /\ hist' = Append(hist, [T |-> T, result |-> r.result])
    /\ UNCHANGED <<orig, first, dispatchVars>>

UnpackFirst ==
    /\ first = Pending
    /\ \E T \in CursorTargets :
          first' = [T |-> T, result |-> unpack_first(T, orig)]
    /\ UNCHANGED <<orig, rest, hist, dispatchVars>>

Next == UnpackNext \/ UnpackFirst

Spec == Init /\ [][Next]_vars

(* ------------------------- cursor properties --------------------------- *)

(* C1: the k-th unpack_next returns unpack<T_k> of the value of the k-th   *)
(* Token of the output sequence when k <= n, whatever the earlier calls    *)
(* returned, and InvalidAbi for every k > n.                               *)
C1_KthCallDecodesKthToken ==
    \A k \in 1..Len(hist) :
        hist[k].result =
            IF k <= Len(orig) THEN unpack(hist[k].T, orig[k].value) ELSE InvalidAbi

(* Two Tokens: the first call failed, the second succeeded, the third hit  *)
(* the exhausted cursor.                                                   *)
C1_Witness ==
    /\ Len(orig) = 2
    /\ Len(hist) = 3
    /\ ~hist[1].result.ok
    /\ hist[2].result.ok
    /\ hist[3].result = InvalidAbi

(* C2: unpack_first as T returns what one unpack_next as T on a fresh      *)
(* cursor over the whole sequence returns: the decode of the first Token's *)
(* value, whatever follows it, and InvalidAbi for the empty sequence.      *)
C2_FirstIsOneNext ==
    first # Pending =>
        /\ first.result =
              IF orig = <<>> THEN InvalidAbi ELSE unpack(first.T, orig[1].value)
        /\ (hist # <<>> /\ hist[1].T = first.T) => hist[1].result = first.result

C2_Witness ==
    /\ first # Pending
    /\ Len(orig) = 2
    /\ hist # <<>>
    /\ hist[1].T = first.T
    /\ first.result.ok
    /\ unpack(first.T, orig[2].value) # first.result

IsSuffix(s, t) == \E n \in 0..Len(t) : s = SubSeq(t, n + 1, Len(t))

(* C10: the remaining Tokens are always a suffix of the output sequence;   *)
(* a call on a non-empty cursor removes exactly the first remaining Token, *)
(* a call on an exhausted cursor leaves it exhausted, and the remaining    *)
(* count never grows.                                                      *)
C10_ForwardOnly ==
    /\ [](IsSuffix(rest, orig) /\ Len(rest) = Len(orig) - Min(Len(hist), Len(orig)))
    /\ [][/\ orig' = orig
          /\ Len(rest') <= Len(rest)
          /\ hist' # hist => rest' = IF rest = <<>> THEN <<>> ELSE Tail(rest)
          /\ hist' = hist => rest' = rest]_vars

(* A failed decode has consumed its Token.                                 *)
C10_Witness ==
    /\ Len(hist) = 1
    /\ ~hist[1].result.ok
    /\ Len(orig) = 2
    /\ rest = Tail(orig)

(* ----------------------- inputs of the unpack rules -------------------- *)

TagSizes == {8, 16, 64, 256}

NumericValues ==
    {UintValue(n, size) : n \in BigUints, size \in TagSizes}
        \cup {IntValue(n, size) : n \in BigInts, size \in TagSizes}

SignedKinds == {"i8", "i16", "i32", "i64", "i128"}

UnsignedKinds == {"u8", "u16", "u32", "u64", "u128"}

FixedIntKinds == SignedKinds \cup UnsignedKinds

BigKinds == {"BigInt", "BigUint"}

ScalarKinds == {"bool", "Cell", "String", "Bytes", "Grams"}

AddressKinds == {"MsgAddressInt", "MsgAddress", "MsgAddrStd"}

PlainTargets ==
    {Ty(k) : k \in FixedIntKinds \cup BigKinds \cup ScalarKinds \cup AddressKinds
                      \cup {"UInt256", "TokenValue"}}

NarrowTargets == {Ty(k) : k \in FixedIntKinds \cup BigKinds \cup {"UInt256"}}

(* Element types of the generic Vec<T> rule.  u8 is not one of them:       *)
(* Vec<u8> has its own rule (Bytes), so u8 cannot be a StandaloneToken.    *)
ElementTargets == {Ty("u32"), Ty("bool"), Ty("BigUint"), Ty("TokenValue")}

KeyTargets == {Ty("u8"), Ty("BigUint")}

ValueTargets == {Ty("String"), Ty("TokenValue")}

InnerTargets == {Ty("u32"), Ty("bool"), Ty("TokenValue")}

GenericTargets ==
    {Gen("Vec", e) : e \in ElementTargets}
        \cup {MapTy(m, kt, vt) : m \in {"BTreeMap", "HashMap"},
                                 kt \in KeyTargets, vt \in ValueTargets}
        \cup {Gen(w, e) : w \in {"Option", "MaybeRef"}, e \in InnerTargets}
        \cup {Gen(w, e) : w \in {"Box", "Arc"},
                          e \in {Ty("u32"), Ty("i8"), Gen("Vec", Ty("u32"))}}

Targets == PlainTargets \cup GenericTargets

StdPayloads == {[workchain_id |-> 0, address |-> 1], [workchain_id |-> 0, address |-> 2]}

VarPayloads == {[workchain_id |-> 0, address |-> 1, addr_len |-> 8]}

AddressValues ==
    {Address(AddrStd(a)) : a \in StdPayloads}
        \cup {Address(AddrVar(a)) : a \in VarPayloads}
        \cup {Address(AddrNone), Address(AddrExt(1))}

ScalarValues ==
    {Bool(TRUE), Bool(FALSE), Cell(1), String("a"), String("b"),
     Bytes(<<>>), Bytes(<<1, 2>>), Grams(5)}

SampleNumbers ==
    {U32(1), UintValue(Num(<<1>>), 8), UintValue(Num(<<1, 44>>), 16),
     UintValue(Num(<<1>>), 256), UintValue(Num(<<>>), 8),
     IntValue(SNum(FALSE, <<1>>), 8), IntValue(SNum(TRUE, <<1>>), 8),
     IntValue(SNum(FALSE, <<1, 44>>), 16), IntValue(SNum(FALSE, <<>>), 32)}

ElementValues ==
    {U32(1), U32(2), U32(3), Bool(TRUE), UintValue(Num(<<1, 0, 0, 0, 0>>), 64)}

ArrayValues ==
    {Array("uint32", q) : q \in SeqsUpTo(ElementValues, MaxItems)}
        \cup {FixedArray("uint32", q) : q \in SeqsUpTo(ElementValues, MaxItems)}

(* Map keys as the source stores them.  Two distinct source keys may       *)
(* decode to the same native key (1 tagged uint8 and 1 tagged uint16).     *)
MapKeys ==
    {UintValue(Num(<<1>>), 8), UintValue(Num(<<1>>), 16), UintValue(Num(<<2>>), 8),
     IntValue(SNum(FALSE, <<1>>), 8)}

MapItems == {String("a"), String("b"), Bool(TRUE)}

(* The pairs of a source map in its iteration order: no key twice.         *)
MapValues ==
    {Map("uint8", "string", q) :
        q \in {p \in SeqsUpTo(MapKeys \X MapItems, MaxPairs) :
                  \A i, j \in 1..Len(p) : i # j => p[i][1] # p[j][1]}}

InnerValues ==
    {U32(1), Bool(TRUE), String("a"), Ref(U32(1)), Ref(Bool(TRUE)), Ref(String("a")),
     Ref(Ref(U32(1)))}

OptionalValues ==
    {Optional("uint32", None)} \cup {Optional("uint32", Some(x)) : x \in InnerValues}

RefValues == {Ref(U32(1)), Ref(Bool(TRUE))}

Values ==
    SampleNumbers \cup ScalarValues \cup AddressValues \cup ArrayValues
        \cup MapValues \cup OptionalValues \cup RefValues

(* ------------------- the unpack rules as operations -------------------- *)

IdleCursor == orig = <<>> /\ rest = <<>> /\ hist = <<>> /\ first = Pending

(* Each action is one call of TokenValue::unpack::<target>() on val.       *)
UnpackFixedInt ==
    /\ res = Pending
    /\ target.k \in FixedIntKinds
    /\ res' = unpack(target, val)
    /\ UNCHANGED <<val, target, cursorVars>>

UnpackBig ==
    /\ res = Pending
    /\ target.k \in BigKinds
    /\ res' = unpack(target, val)
    /\ UNCHANGED <<val, target, cursorVars>>

UnpackUInt256 ==
    /\ res = Pending
    /\ target.k = "UInt256"
    /\ res' = unpack_UInt256(val)
    /\ UNCHANGED <<val, target, cursorVars>>

UnpackScalar ==
    /\ res = Pending
    /\ target.k \in ScalarKinds
    /\ res' = unpack(target, val)
    /\ UNCHANGED <<val, target, cursorVars>>

UnpackAddress ==
    /\ res = Pending
    /\ target.k \in AddressKinds
    /\ res' = unpack(target, val)
    /\ UNCHANGED <<val, target, cursorVars>>

UnpackIdentity ==
    /\ res = Pending
    /\ target.k = "TokenValue"
    /\ res' = unpack_TokenValue(val)
    /\ UNCHANGED <<val, target, cursorVars>>

UnpackVec ==
    /\ res = Pending
    /\ target.k = "Vec"
    /\ res' = unpack_Vec(target.e, val)
    /\ UNCHANGED <<val, target, cursorVars>>

UnpackBTreeMap ==
    /\ res = Pending
    /\ target.k = "BTreeMap"
    /\ res' = unpack_BTreeMap(target.kt, target.vt, val)
    /\ UNCHANGED <<val, target, cursorVars>>

UnpackHashMap ==
    /\ res = Pending
    /\ target.k = "HashMap"
    /\ res' = unpack_HashMap(target.kt, target.vt, val)
    /\ UNCHANGED <<val, target, cursorVars>>

UnpackOption ==
    /\ res = Pending
    /\ target.k = "Option"
    /\ res' = unpack_Option(target.e, val)
    /\ UNCHANGED <<val, target, cursorVars>>

UnpackMaybeRef ==
    /\ res = Pending
    /\ target.k = "MaybeRef"
    /\ res' = unpack_MaybeRef(target.e, val)
    /\ UNCHANGED <<val, target, cursorVars>>

UnpackBox ==
    /\ res = Pending
    /\ target.k = "Box"
    /\ res' = unpack_Box(target.e, val)
    /\ UNCHANGED <<val, target, cursorVars>>

UnpackArc ==
    /\ res = Pending
    /\ target.k = "Arc"
    /\ res' = unpack_Arc(target.e, val)
    /\ UNCHANGED <<val, target, cursorVars>>

InitNarrow ==
    /\ val \in NumericValues
    /\ target \in NarrowTargets
    /\ res = Pending
    /\ IdleCursor

NextNarrow == UnpackFixedInt \/ UnpackBig \/ UnpackUInt256

SpecNarrow == InitNarrow /\ [][NextNarrow]_vars

InitDispatch ==
    /\ val \in Values
    /\ target \in Targets
    /\ res = Pending
    /\ IdleCursor

NextDispatch ==
    \/ UnpackFixedInt
    \/ UnpackBig
    \/ UnpackUInt256
    \/ UnpackScalar
    \/ UnpackAddress
    \/ UnpackIdentity
    \/ UnpackVec
    \/ UnpackBTreeMap
    \/ UnpackHashMap
    \/ UnpackOption
    \/ UnpackMaybeRef
    \/ UnpackBox
    \/ UnpackArc

SpecDispatch == InitDispatch /\ [][NextDispatch]_vars

(* ----------------------- numeric narrowing ----------------------------- *)

IntWidth(k) ==
    CASE k \in {"i8", "u8"} -> 8
      [] k \in {"i16", "u16"} -> 16
      [] k \in {"i32", "u32"} -> 32
      [] k \in {"i64", "u64"} -> 64
      [] k \in {"i128", "u128"} -> 128

(* a <= b for two magnitudes without leading zeros.                        *)
MagLeq(a, b) ==
    \/ Len(a) < Len(b)
    \/ /\ Len(a) = Len(b)
       /\ \/ a = b
          \/ \E i \in 1..Len(a) : a[i] < b[i] /\ \A j \in 1..(i - 1) : a[j] = b[j]

(* 2^w - 1, 2^(w-1) - 1 and 2^(w-1) as magnitudes.                         *)
MaxUnsigned(w) == [i \in 1..(w \div 8) |-> 255]

MaxSigned(w) == [i \in 1..(w \div 8) |-> IF i = 1 THEN 127 ELSE 255]

MinSignedMagnitude(w) == [i \in 1..(w \div 8) |-> IF i = 1 THEN 128 ELSE 0]

Representable(number, k) ==
    IF k \in UnsignedKinds THEN MagLeq(number.mag, MaxUnsigned(IntWidth(k)))
    ELSE IF number.neg THEN MagLeq(number.mag, MinSignedMagnitude(IntWidth(k)))
    ELSE MagLeq(number.mag, MaxSigned(IntWidth(k)))

MatchingVariant(k) == IF k \in SignedKinds THEN "Int" ELSE "Uint"

(* C3: a fixed-width integer target of width B, given a payload of the     *)
(* matching variant under any bit-width tag, fails with InvalidAbi exactly *)
(* when the payload is outside the B-bit range of the target's signedness, *)
(* and otherwise returns the payload itself.                               *)
C3_NarrowingExact ==
    (res # Pending /\ target.k \in FixedIntKinds /\ val.tag = MatchingVariant(target.k)) =>
        IF Representable(val.number, target.k)
        THEN res = Ok(val.number)
        ELSE res = InvalidAbi

(* 300 under a 16-bit tag does not fit the 8-bit unsigned target.          *)
C3_Witness ==
    /\ target = Ty("u8")
    /\ val = UintValue(Num(<<1, 44>>), 16)
    /\ res = InvalidAbi

RECURSIVE StripLeadingZeros(_)

StripLeadingZeros(bytes) ==
    IF bytes = <<>> \/ bytes[1] # 0 THEN bytes ELSE StripLeadingZeros(Tail(bytes))

(* C4: the 32-byte target succeeds exactly for an UnsignedInteger tagged   *)
(* 256 bits, and then, for every payload under that tag, the 32 bytes read *)
(* as a big-endian number equal the payload; anything else is InvalidAbi.  *)
C4_Bytes32EqualPayload ==
    (res # Pending /\ target.k = "UInt256") =>
        IF val.tag = "Uint" /\ val.size = UInt256Size
        THEN /\ res.ok
             /\ Len(res.v.bytes32) = UInt256Len
             /\ StripLeadingZeros(res.v.bytes32) = val.number.mag
        ELSE res = InvalidAbi

(* --------------------------- dispatch ---------------------------------- *)

AllTags ==
    {"Uint", "Int", "Bool", "Cell", "Address", "String", "Bytes", "Token", "Array",
     "FixedArray", "Map", "Optional", "Ref"}

RECURSIVE ExpectedTags(_)

(* The variants the rule of target type T is written for.                  *)
ExpectedTags(T) ==
    CASE T.k \in SignedKinds \cup {"BigInt"} -> {"Int"}
      [] T.k \in UnsignedKinds \cup {"BigUint", "UInt256"} -> {"Uint"}
      [] T.k = "bool" -> {"Bool"}
      [] T.k = "Cell" -> {"Cell"}
      [] T.k \in AddressKinds -> {"Address"}
      [] T.k = "String" -> {"String"}
      [] T.k = "Bytes" -> {"Bytes"}
      [] T.k = "Grams" -> {"Token"}
      [] T.k = "Vec" -> {"Array", "FixedArray"}
      [] T.k \in {"BTreeMap", "HashMap"} -> {"Map"}
      [] T.k \in {"Option", "MaybeRef"} -> {"Optional"}
      [] T.k \in {"Box", "Arc"} -> ExpectedTags(T.e)
      [] T.k = "TokenValue" -> AllTags

(* C5: for every target other than the identity target, a value whose      *)
(* variant is not the one the target's rule expects decodes to InvalidAbi, *)
(* never to a coerced value.                                               *)
C5_NoCoercion ==
    (res # Pending /\ target.k # "TokenValue" /\ val.tag \notin ExpectedTags(target)) =>
        res = InvalidAbi

(* An unsigned 1 that would fit is refused by a signed target.             *)
C5_Witness ==
    /\ target = Ty("i8")
    /\ val = UintValue(Num(<<1>>), 8)
    /\ res = InvalidAbi

Entries(r) == IF "btree" \in DOMAIN r.v THEN r.v.btree ELSE r.v.hash

(* C7: the order-preserving and the hash-based map targets give the same   *)
(* outcome on the same Mapping: InvalidAbi if a key or a value fails to    *)
(* decode, otherwise exactly the decoded keys, each with the decoded value *)
(* of the last pair carrying it.                                           *)
C7_MapTargetsAgree ==
    (res # Pending /\ target.k \in {"BTreeMap", "HashMap"} /\ val.tag = "Map") =>
        LET pairs == val.values
            n == Len(pairs)
            keys == [i \in 1..n |-> unpack(target.kt, pairs[i][1])]
            items == [i \in 1..n |-> unpack(target.vt, pairs[i][2])]
            LastWith(k) == CHOOSE i \in 1..n :
                               /\ keys[i].v = k
                               /\ \A j \in (i + 1)..n : keys[j].v # k
            expected == {<<keys[i].v, items[LastWith(keys[i].v)].v>> : i \in 1..n}
            other == IF target.k = "BTreeMap"
                     THEN unpack_HashMap(target.kt, target.vt, val)
                     ELSE unpack_BTreeMap(target.kt, target.vt, val)
        IN IF \A i \in 1..n : keys[i].ok /\ items[i].ok
           THEN /\ res.ok /\ other.ok
                /\ Entries(res) = expected
                /\ Entries(other) = expected
           ELSE res = InvalidAbi /\ other = InvalidAbi

(* Two source keys decode to the same native key: the later pair wins.     *)
C7_Witness ==
    /\ target = MapTy("BTreeMap", Ty("u8"), Ty("String"))
    /\ val = Map("uint8", "string",
                 <<<<UintValue(Num(<<1>>), 8), String("a")>>,
                   <<UintValue(Num(<<1>>), 16), String("b")>>>>)
    /\ res = Ok([btree |-> {<<Num(<<1>>), [s |-> "b"]>>}])

(* C8: the reference wrapper of T: an absent Optional gives the empty      *)
(* wrapper; a present Optional holding a Reference gives the decode of the *)
(* Reference's inner value under T's rule, or InvalidAbi if that fails; a  *)
(* present Optional holding anything else, and any non-Optional source,    *)
(* give InvalidAbi.                                                        *)
C8_MaybeRefShape ==
    (res # Pending /\ target.k = "MaybeRef") =>
        IF val.tag # "Optional" THEN res = InvalidAbi
        ELSE IF val.item = None THEN res = Ok(MaybeRef(None))
        ELSE IF val.item[1].tag # "Ref" THEN res = InvalidAbi
        ELSE LET r == unpack(target.e, val.item[1].inner)
             IN IF r.ok THEN res = Ok(MaybeRef(Some(r.v))) ELSE res = InvalidAbi

(* A present Optional whose inner value would itself decode as T, but is   *)
(* not a Reference.                                                        *)
C8_Witness ==
    /\ target = Gen("MaybeRef", Ty("u32"))
    /\ val = Optional("uint32", Some(U32(1)))
    /\ unpack(Ty("u32"), U32(1)).ok
    /\ res = InvalidAbi

(* C9 as stated: for every Address value the generic target returns the    *)
(* address unchanged, the internal target never fails and relabels         *)
(* standard and variable, the strict target succeeds exactly for standard; *)
(* all three fail on a non-Address value.                                  *)
C9_InternalNeverFails ==
    (res # Pending /\ target.k \in AddressKinds) =>
        IF val.tag # "Address" THEN res = InvalidAbi
        ELSE CASE target.k = "MsgAddress" -> res = Ok(val.addr)
               [] target.k = "MsgAddressInt" ->
                    /\ res.ok
                    /\ val.addr.kind = "AddrStd" => res = Ok(IntAddrStd(val.addr.std))
                    /\ val.addr.kind = "AddrVar" => res = Ok(IntAddrVar(val.addr.var))
               [] target.k = "MsgAddrStd" ->
                    IF val.addr.kind = "AddrStd"
                    THEN res = Ok(val.addr.std)
                    ELSE res = InvalidAbi

(* C9 amended: as stated, except that the internal target fails with       *)
(* InvalidAbi for an Address that is neither standard nor variable.        *)
C9_AddressTargets ==
    (res # Pending /\ target.k \in AddressKinds) =>
        IF val.tag # "Address" THEN res = InvalidAbi
        ELSE CASE target.k = "MsgAddress" -> res = Ok(val.addr)
               [] target.k = "MsgAddressInt" ->
                    CASE val.addr.kind = "AddrStd" -> res = Ok(IntAddrStd(val.addr.std))
                      [] val.addr.kind = "AddrVar" -> res = Ok(IntAddrVar(val.addr.var))
                      [] OTHER -> res = InvalidAbi
               [] target.k = "MsgAddrStd" ->
                    IF val.addr.kind = "AddrStd"
                    THEN res = Ok(val.addr.std)
                    ELSE res = InvalidAbi

(* A variable address is relabelled by the internal target.                *)
C9_Witness ==
    /\ target = Ty("MsgAddressInt")
    /\ val.tag = "Address"
    /\ val.addr.kind = "AddrVar"
    /\ res = Ok(IntAddrVar(val.addr.var))

====
